---- MODULE Spec2Model ----
(***************************************************************************)
(* Model of the snake-playground-pro backend: the in-memory live registry  *)
(* (LivePlayerService), the spectator stream (player_stream), the score    *)
(* ledger with the per-user stat cache, and the ranking query.             *)
(*                                                                         *)
(* The server is a single asyncio event loop: a coroutine runs without     *)
(* interruption between two suspending awaits.  The registry methods take  *)
(* an asyncio.Lock that is never held across an await, so every registry   *)
(* call is one atomic step; the stream suspends only in websocket.accept,  *)
(* websocket.send_json, websocket.close and asyncio.sleep.  The database   *)
(* code is synchronous; its steps are the commits.                         *)
(***************************************************************************)
EXTENDS Integers, Sequences, FiniteSets, TLC

VARIABLES
    players,    \* LivePlayerService._players: player_id -> dict
    streams,    \* one record per spectator connection (task of player_stream)
    calls,      \* per session: the join/leave calls made since add_player
    last,       \* the last registry call or REST request of /live, with its outcome
    lock,       \* LivePlayerService._lock: the task holding it, if any
    users,      \* table users: id -> row
    ledger,     \* table leaderboard: rows in insertion order
    req,        \* the score submission being served (DatabaseService.add_score)
    resp,       \* the last response of a read endpoint, or of a request refused
    revoked,    \* table invalidated_tokens
    now         \* the clock, in ticks; a token's exp claim is in whole seconds

vars == <<players, streams, calls, last, lock, users, ledger, req, resp, revoked, now>>

liveVars == <<players, streams, calls, last, lock>>
authVars == <<revoked, now>>
dbVars == <<users, ledger, req, resp, revoked, now>>

------------------------------------------------------------------------------
(* Bounds of the exploration *)

MaxMsgs == 2        \* messages pushed to one watcher
MaxWatch == 1       \* REST joins are explored up to this watcher_count
MaxCalls == 5       \* join/leave calls recorded per session
MaxEntries == 3     \* rows in the ledger
MaxJoins == 2       \* watcher_count a REST join is made at, in the registry alone
TokenTTL == 1       \* ACCESS_TOKEN_EXPIRE_MINUTES, in seconds
MaxTime == 2        \* the clock stops at this second
TicksPerSecond == 2 \* resolution of the clock below the second

(* Input sets *)

PlayerIds == {"live-1", "live-2"}
StreamIds == {"w1", "w2"}
UserIds == {"user-1", "user-2", "user-3"}
NoAccount == "nonexistent-user"
Modes == {"walls", "pass-through"}
\* The bodies of POST /leaderboard/scores that are explored.
SubmitInputs ==
    { [score |-> 0, mode |-> "walls"], [score |-> 1, mode |-> "pass-through"],
      [score |-> 2, mode |-> "walls"] }

None == <<>>
Some(v) == <<v>>

Max(a, b) == IF a >= b THEN a ELSE b

------------------------------------------------------------------------------
(* Live registry: LivePlayerService *)

Pos(x, y) == [x |-> x, y |-> y]

InitialSnake == <<Pos(10, 10), Pos(9, 10), Pos(8, 10)>>
InitialFood == Pos(15, 12)

\* The game states a player's loop reports through update_game_state.
Snapshots ==
    { [snake |-> <<Pos(15, 13), Pos(15, 12), Pos(14, 12), Pos(13, 12)>>, food |-> Pos(3, 4),
       direction |-> "DOWN", score |-> 10] }

\* The same and a second one, for the registry explored without streams.
RegistrySnapshots ==
    Snapshots \cup
    { [snake |-> <<Pos(2, 7), Pos(2, 6)>>, food |-> Pos(19, 0),
       direction |-> "LEFT", score |-> 20] }

Usernames == [u \in UserIds |->
    CASE u = "user-1" -> "SnakeMaster" [] u = "user-2" -> "PyPlayer" [] OTHER -> "GamePro"]

\* player_data of add_player.
NewPlayerData(player_id, user_id, username, mode) ==
    [id |-> player_id, user_id |-> user_id, username |-> username, score |-> 0,
     mode |-> mode, snake |-> InitialSnake, food |-> InitialFood,
     direction |-> "RIGHT", is_alive |-> TRUE, watcher_count |-> 0]

add_player_setdefault(P, player_id, user_id, username, mode) ==
    [q \in DOMAIN P \cup {player_id} |->
        IF q \in DOMAIN P THEN P[q] ELSE NewPlayerData(player_id, user_id, username, mode)]

\* self._players[player_id] = player_data
add_player(P, player_id, user_id, username, mode) ==
    [q \in DOMAIN P \cup {player_id} |->
        IF q = player_id THEN NewPlayerData(player_id, user_id, username, mode) ELSE P[q]]

\* self._players.pop(player_id, None)
remove_player(P, player_id) ==
    [q \in DOMAIN P \ {player_id} |-> P[q]]

\* LivePlayer(...): the public view of a registry entry.
to_live_player(d) ==
    [id |-> d.id, username |-> d.username, score |-> d.score, mode |-> d.mode,
     snake |-> d.snake, food |-> d.food, direction |-> d.direction,
     is_alive |-> d.is_alive, watcher_count |-> d.watcher_count]

get_player(P, player_id) ==
    IF player_id \in DOMAIN P THEN Some(to_live_player(P[player_id])) ELSE None

update_game_state_partial(P, player_id, snap, is_alive) ==
    IF player_id \in DOMAIN P
    THEN [P EXCEPT ![player_id] =
            [@ EXCEPT !.snake = snap.snake, !.direction = snap.direction,
                      !.is_alive = is_alive]]
    ELSE P

update_game_state_upsert(P, player_id, snap, is_alive) ==
    [q \in DOMAIN P \cup {player_id} |->
        [(IF q \in DOMAIN P THEN P[q]
          ELSE NewPlayerData(player_id, "user-1", Usernames["user-1"], "walls"))
         EXCEPT !.snake = IF q = player_id THEN snap.snake ELSE @,
                !.food = IF q = player_id THEN snap.food ELSE @,
                !.direction = IF q = player_id THEN snap.direction ELSE @,
                !.score = IF q = player_id THEN snap.score ELSE @,
                !.is_alive = IF q = player_id THEN is_alive ELSE @]]

update_game_state_replace(P, player_id, snap, is_alive) ==
    IF player_id \in DOMAIN P
    THEN [P EXCEPT ![player_id] =
            [NewPlayerData(player_id, @.user_id, @.username, @.mode)
                EXCEPT !.snake = snap.snake, !.food = snap.food,
                       !.direction = snap.direction, !.score = snap.score,
                       !.is_alive = is_alive]]
    ELSE P

\* player.update({...}) under the lock, when the id is in the registry.
update_game_state(P, player_id, snap, is_alive) ==
    IF player_id \in DOMAIN P
    THEN [P EXCEPT ![player_id] =
            [@ EXCEPT !.snake = snap.snake, !.food = snap.food,
                      !.direction = snap.direction, !.score = snap.score,
                      !.is_alive = is_alive]]
    ELSE P

lock_after_held(task) == Some(task)

\* The lock when a method's "async with self._lock" block is left: released.
lock_after(task) == None

\* async with self._lock, by task: the block has no await inside, so the
\* method runs when the lock is free and returns without suspension.
with_lock(task) == lock = None /\ lock' = lock_after(task)

\* Both return [players, ret]: the registry afterwards and the returned count.
increment_watchers(P, player_id) ==
    IF player_id \in DOMAIN P
    THEN [players |-> [P EXCEPT ![player_id].watcher_count = @ + 1],
          ret |-> Some(P[player_id].watcher_count + 1)]
    ELSE [players |-> P, ret |-> None]

decrement_watchers_nofloor(P, player_id) ==
    IF player_id \in DOMAIN P
    THEN [players |-> [P EXCEPT ![player_id].watcher_count = @ - 1],
          ret |-> Some(P[player_id].watcher_count - 1)]
    ELSE [players |-> P, ret |-> None]

decrement_watchers(P, player_id) ==
    IF player_id \in DOMAIN P
    THEN [players |-> [P EXCEPT ![player_id].watcher_count = Max(0, @ - 1)],
          ret |-> Some(Max(0, P[player_id].watcher_count - 1))]
    ELSE [players |-> P, ret |-> None]

------------------------------------------------------------------------------
(* Spectator stream: player_stream *)

StateMessage(player) ==
    [type |-> "gameState",
     data |-> [snake |-> player.snake, food |-> player.food,
               direction |-> player.direction, score |-> player.score,
               isAlive |-> player.is_alive]]

GameOverMessage ==
    [type |-> "gameOver",
     data |-> [snake |-> <<>>, food |-> Pos(0, 0), direction |-> "RIGHT",
               score |-> 0, isAlive |-> FALSE]]

\* A connection before the client opens it.  sending: the argument of the
\* send_json being awaited; msgs: what the watcher has received; inc: whether
\* the stream's increment_watchers found the session; decs: the decrement_watchers calls the
\* stream has made; exit: the path by which player_stream was left.
IdleStream ==
    [pc |-> "idle", player_id |-> "", sending |-> None, msgs |-> <<>>,
     inc |-> FALSE, decs |-> 0, exit |-> "none", close_code |-> 0]

Sending == {"sending_initial", "sending_state", "sending_over"}

\* Lines 80-86: the existence check, then the await of close(4004) or of accept().
StreamConnect(w, pid) ==
    /\ streams[w].pc = "idle"
    /\ streams' = [streams EXCEPT ![w] =
            [@ EXCEPT !.player_id = pid,
                      !.pc = IF get_player(players, pid) = None
                             THEN "closing_not_found" ELSE "accepting"]]
    /\ UNCHANGED <<players, calls, last, lock, dbVars>>

StreamRejected_decrements(w) ==
    /\ streams[w].pc = "closing_not_found"
    /\ players' = decrement_watchers(players, streams[w].player_id).players
    /\ streams' = [streams EXCEPT ![w] =
            [@ EXCEPT !.pc = "done", !.exit = "not_found", !.decs = @ + 1,
                      !.close_code = 4004]]
    /\ with_lock(w)
    /\ UNCHANGED <<calls, last, dbVars>>

\* Lines 82-84: close(code=4004) returns, and so does the handler.
StreamRejected(w) ==
    /\ streams[w].pc = "closing_not_found"
    /\ streams' = [streams EXCEPT ![w] =
            [@ EXCEPT !.pc = "done", !.exit = "not_found", !.close_code = 4004]]
    /\ UNCHANGED <<players, calls, last, lock, dbVars>>

\* Line 86: accept() raises (the client is gone); nothing catches it.
StreamAcceptFails(w) ==
    /\ streams[w].pc = "accepting"
    /\ streams' = [streams EXCEPT ![w] = [@ EXCEPT !.pc = "done", !.exit = "accept_failed"]]
    /\ UNCHANGED <<players, calls, last, lock, dbVars>>

StreamAccepted_nosnapshot(w) ==
    /\ streams[w].pc = "accepting"
    /\ LET r == increment_watchers(players, streams[w].player_id)
       IN /\ players' = r.players
          /\ streams' = [streams EXCEPT ![w] =
                [@ EXCEPT !.inc = (r.ret # None), !.pc = "sleeping"]]
    /\ with_lock(w)
    /\ UNCHANGED <<calls, last, dbVars>>

\* Lines 86-105: accept() returns; the increment, the read and the building of
\* the initial message run without suspension up to the await of send_json; with
\* no player the handler goes on to the first sleep.
StreamAccepted(w) ==
    /\ streams[w].pc = "accepting"
    /\ LET pid == streams[w].player_id
           r == increment_watchers(players, pid)
           player == get_player(r.players, pid)
       IN /\ players' = r.players
          /\ streams' = [streams EXCEPT ![w] =
                IF player # None
                THEN [@ EXCEPT !.inc = (r.ret # None), !.pc = "sending_initial",
                               !.sending = Some(StateMessage(player[1]))]
                ELSE [@ EXCEPT !.inc = (r.ret # None), !.pc = "sleeping"]]
    /\ with_lock(w)
    /\ UNCHANGED <<calls, last, dbVars>>

\* Lines 109-138: the sleep is over; the read, and the message built from it.
StreamTick(w) ==
    /\ streams[w].pc = "sleeping"
    /\ Len(streams[w].msgs) < MaxMsgs
    /\ LET player == get_player(players, streams[w].player_id)
       IN streams' = [streams EXCEPT ![w] =
                IF player = None
                THEN [@ EXCEPT !.pc = "sending_over", !.sending = Some(GameOverMessage)]
                ELSE [@ EXCEPT !.pc = "sending_state",
                               !.sending = Some(StateMessage(player[1]))]]
    /\ UNCHANGED <<players, calls, last, lock, dbVars>>

StreamSent_nobreak(w) ==
    /\ streams[w].pc \in Sending
    /\ streams' = [streams EXCEPT ![w] =
            [@ EXCEPT !.msgs = Append(@, streams[w].sending[1]), !.sending = None,
                      !.pc = "sleeping"]]
    /\ UNCHANGED <<players, calls, last, lock, dbVars>>

\* send_json returns: the watcher has the message.  After gameOver the loop is
\* left by break (line 125) and the handler returns; otherwise the next sleep.
StreamSent(w) ==
    /\ streams[w].pc \in Sending
    /\ streams' = [streams EXCEPT ![w] =
            IF @.pc = "sending_over"
            THEN [@ EXCEPT !.msgs = Append(@, streams[w].sending[1]), !.sending = None,
                           !.pc = "done", !.exit = "ended"]
            ELSE [@ EXCEPT !.msgs = Append(@, streams[w].sending[1]), !.sending = None,
                           !.pc = "sleeping"]]
    /\ UNCHANGED <<players, calls, last, lock, dbVars>>

\* Lines 140-142: send_json raises WebSocketDisconnect.
StreamDisconnect(w) ==
    /\ streams[w].pc \in Sending
    /\ players' = decrement_watchers(players, streams[w].player_id).players
    /\ streams' = [streams EXCEPT ![w] =
            [@ EXCEPT !.sending = None, !.decs = @ + 1, !.pc = "done",
                      !.exit = "disconnect"]]
    /\ with_lock(w)
    /\ UNCHANGED <<calls, last, dbVars>>

\* Lines 143-146: send_json raises another exception; the decrement, then the
\* await of close().
StreamError(w) ==
    /\ streams[w].pc \in Sending
    /\ players' = decrement_watchers(players, streams[w].player_id).players
    /\ streams' = [streams EXCEPT ![w] =
            [@ EXCEPT !.sending = None, !.decs = @ + 1, !.pc = "closing",
                      !.exit = "error"]]
    /\ with_lock(w)
    /\ UNCHANGED <<calls, last, dbVars>>

\* Line 146: close() is over.
StreamClosed(w) ==
    /\ streams[w].pc = "closing"
    /\ streams' = [streams EXCEPT ![w] = [@ EXCEPT !.pc = "done", !.close_code = 1000]]
    /\ UNCHANGED <<players, calls, last, lock, dbVars>>

------------------------------------------------------------------------------
\* The watcher's client takes the oldest message it holds off its socket.
WatcherReads(w) ==
    /\ streams[w].msgs # <<>>
    /\ streams' = [streams EXCEPT ![w] = [@ EXCEPT !.msgs = Tail(@)]]
    /\ UNCHANGED <<players, calls, last, lock, dbVars>>

------------------------------------------------------------------------------

(* Registry calls made by the other tasks *)

NoCalls == [p \in PlayerIds |-> <<>>]

AddPlayer(pid, uid, mode) ==
    /\ players' = add_player(players, pid, uid, Usernames[uid], mode)
    /\ calls' = [calls EXCEPT ![pid] = <<>>]
    /\ with_lock("caller")
    /\ UNCHANGED <<streams, dbVars>>

RemovePlayer(pid) ==
    /\ players' = remove_player(players, pid)
    /\ with_lock("caller")
    /\ UNCHANGED <<streams, calls, dbVars>>

UpdateGameState(pid, snap, is_alive) ==
    /\ players' = update_game_state(players, pid, snap, is_alive)
    /\ with_lock("caller")
    /\ UNCHANGED <<streams, calls, dbVars>>

\* POST /live/players/{player_id}/watch
join_as_watcher(pid) ==
    /\ players' = increment_watchers(players, pid).players
    /\ with_lock("caller")
    /\ UNCHANGED <<streams, dbVars>>

\* DELETE /live/players/{player_id}/watch
leave_as_watcher(pid) ==
    /\ players' = decrement_watchers(players, pid).players
    /\ with_lock("caller")
    /\ UNCHANGED <<streams, dbVars>>

NotFound == [status |-> 404, error |-> "PLAYER_NOT_FOUND"]

watch_response_zero(ret) ==
    IF ret = None THEN [status |-> 200, watcherCount |-> 0]
    ELSE [status |-> 200, watcherCount |-> ret[1]]

watch_response_falsy(ret) ==
    IF ret = None \/ ret = Some(0) THEN NotFound
    ELSE [status |-> 200, watcherCount |-> ret[1]]

\* The answer of join_as_watcher and of leave_as_watcher to the count the
\* service returned: "if watcher_count is None" raises the 404.
watch_response(ret) ==
    IF ret = None THEN NotFound
    ELSE [status |-> 200, watcherCount |-> ret[1]]

\* The answer of GET /live/players/{player_id}.
live_player_response(P, pid) ==
    LET player == get_player(P, pid)
    IN IF player = None THEN NotFound ELSE [status |-> 200, player |-> player[1]]

\* The record kept in last: the call, the registry it was made on, its outcome.
Call(op, pid, ret) ==
    Some([op |-> op, player_id |-> pid, before |-> players, ret |-> ret])

\* GET /live/players/{player_id}
get_live_player(pid) ==
    /\ last' = Call("get", pid, live_player_response(players, pid))
    /\ UNCHANGED <<players, streams, calls, lock, dbVars>>

------------------------------------------------------------------------------
(* Score ledger and stat cache: LeaderboardRepository, UserRepository *)

\* LeaderboardRepository.add_score: the row is added and committed.
leaderboard_add_score(L, user_id, username, score, mode) ==
    Append(L, [user_id |-> user_id, username |-> username, score |-> score, mode |-> mode,
               date |-> now])

update_stats_overwrite(U, user_id, score) ==
    IF user_id \in DOMAIN U
    THEN [U EXCEPT ![user_id] =
            [@ EXCEPT !.games_played = @ + 1, !.high_score = score]]
    ELSE U

update_stats_nocount(U, user_id, score) ==
    IF user_id \in DOMAIN U
    THEN [U EXCEPT ![user_id] =
            [@ EXCEPT !.high_score = IF score > @ THEN score ELSE @]]
    ELSE U

\* UserRepository.update_stats: the counters are changed and committed.
update_stats(U, user_id, score) ==
    IF user_id \in DOMAIN U
    THEN [U EXCEPT ![user_id] =
            [@ EXCEPT !.games_played = @ + 1,
                      !.high_score = IF score > @ THEN score ELSE @]]
    ELSE U

\* UserRepository.get_by_id: the public view of a users row.
get_user_by_id(U, user_id) ==
    IF user_id \in DOMAIN U
    THEN Some([id |-> user_id, username |-> U[user_id].username,
               high_score |-> U[user_id].high_score,
               games_played |-> U[user_id].games_played])
    ELSE None

SetMax(S) == CHOOSE m \in S : \A x \in S : x <= m
SetMin(S) == CHOOSE m \in S : \A x \in S : m <= x

ScoresOf(L, user_id) == {L[i].score : i \in {j \in DOMAIN L : L[j].user_id = user_id}}

GroupedRowsMin(L) ==
    {[user_id |-> u, max_score |-> SetMin(ScoresOf(L, u))] :
        u \in {L[i].user_id : i \in DOMAIN L}}

\* SELECT user_id, max(score) AS max_score FROM leaderboard GROUP BY user_id
GroupedRows(L) ==
    {[user_id |-> u, max_score |-> SetMax(ScoresOf(L, u))] :
        u \in {L[i].user_id : i \in DOMAIN L}}

OrderedRows_ascending(L) ==
    LET rows == GroupedRows(L)
        n == Cardinality(rows)
    IN {f \in [1..n -> rows] :
            /\ \A r \in rows : \E i \in 1..n : f[i] = r
            /\ \A i, j \in 1..n : i < j => f[i].max_score <= f[j].max_score}

\* ORDER BY max_score DESC: every order of the rows that is descending; the
\* order of rows with equal max_score is the database's choice.
OrderedRows(L) ==
    LET rows == GroupedRows(L)
        n == Cardinality(rows)
    IN {f \in [1..n -> rows] :
            /\ \A r \in rows : \E i \in 1..n : f[i] = r
            /\ \A i, j \in 1..n : i < j => f[i].max_score >= f[j].max_score}

\* The loop of get_user_rank over the ordered rows, from position i.
RECURSIVE FindRank(_, _, _)
FindRank(results, user_id, i) ==
    IF i > Len(results) THEN Len(results) + 1
    ELSE IF results[i].user_id = user_id THEN i
    ELSE FindRank(results, user_id, i + 1)

repo_get_user_rank_unranked(U, user_id, results) ==
    IF user_id \notin DOMAIN U THEN None
    ELSE IF \A i \in DOMAIN results : results[i].user_id # user_id THEN None
    ELSE Some(FindRank(results, user_id, 1))

\* LeaderboardRepository.get_user_rank, given the rows the query returned.
repo_get_user_rank(U, user_id, results) ==
    IF user_id \notin DOMAIN U THEN None ELSE Some(FindRank(results, user_id, 1))

\* No write of DatabaseService.add_score is half done in this server.
Quiet == req.status # "inserted"

\* POST /leaderboard/scores, first commit: the ledger row.
SubmitInsert(u, score, mode) ==
    /\ Quiet
    /\ u \in DOMAIN users
    /\ Len(ledger) < MaxEntries
    /\ ledger' = leaderboard_add_score(ledger, u, users[u].username, score, mode)
    /\ req' = [status |-> "inserted", user_id |-> u, score |-> score, before |-> users]
    /\ resp' = None
    /\ UNCHANGED <<users, liveVars, authVars>>

\* POST /leaderboard/scores, second commit: the user's counters.
SubmitStats ==
    /\ req.status = "inserted"
    /\ users' = update_stats(users, req.user_id, req.score)
    /\ req' = [req EXCEPT !.status = "completed"]
    /\ UNCHANGED <<ledger, resp, liveVars, authVars>>

\* The select or the commit of update_stats raises (the database connection is
\* lost): the request ends with a server error, the session is closed and
\* nothing undoes the committed ledger row.
SubmitFails ==
    /\ req.status = "inserted"
    /\ req' = [req EXCEPT !.status = "failed"]
    /\ UNCHANGED <<users, ledger, resp, liveVars, authVars>>

get_user_rank_unchecked(user_id) ==
    /\ Quiet
    /\ \E results \in OrderedRows(ledger) :
        LET rank == repo_get_user_rank(users, user_id, results)
        IN resp' = Some([op |-> "rank", user_id |-> user_id, status |-> 200,
                         rank |-> IF rank = None THEN 1 ELSE rank[1]])
    /\ UNCHANGED <<users, ledger, req, liveVars, authVars>>

\* GET /leaderboard/rank/{user_id}
get_user_rank(user_id) ==
    /\ Quiet
    /\ \E results \in OrderedRows(ledger) :
        LET user == get_user_by_id(users, user_id)
            rank == repo_get_user_rank(users, user_id, results)
        IN resp' = Some(
            IF user = None
            THEN [op |-> "rank", user_id |-> user_id, status |-> 404,
                  error |-> "USER_NOT_FOUND"]
            ELSE [op |-> "rank", user_id |-> user_id, status |-> 200,
                  rank |-> IF rank = None THEN 1 ELSE rank[1]])
    /\ UNCHANGED <<users, ledger, req, liveVars, authVars>>

\* GET /users/{user_id}/stats
get_user_stats(user_id) ==
    /\ Quiet
    /\ \E results \in OrderedRows(ledger) :
        LET user == get_user_by_id(users, user_id)
            rank == repo_get_user_rank(users, user_id, results)
        IN resp' = Some(
            IF user = None
            THEN [op |-> "stats", user_id |-> user_id, status |-> 404,
                  error |-> "USER_NOT_FOUND"]
            ELSE [op |-> "stats", user_id |-> user_id, status |-> 200,
                  high_score |-> user[1].high_score,
                  games_played |-> user[1].games_played,
                  rank |-> IF rank = None THEN 1 ELSE rank[1]])
    /\ UNCHANGED <<users, ledger, req, liveVars, authVars>>

------------------------------------------------------------------------------
(* Accounts: signup and profile update; tokens: get_current_user and logout *)

\* Usernames and emails are sequences of characters here, so that ilike can be
\* computed on them.
Lower(c) == CASE c = "A" -> "a" [] c = "B" -> "b" [] c = "C" -> "c" [] c = "P" -> "p"
              [] OTHER -> c

\* column.ilike(pattern), the pattern being the value of the request as it
\* came: "_" in it stands for any one character, letters match in either case
\* (no "%" occurs in the values explored).
ilike(value, pattern) ==
    /\ Len(value) = Len(pattern)
    /\ \A i \in DOMAIN pattern :
         pattern[i] = "_" \/ Lower(pattern[i]) = Lower(value[i])

\* The rows that get_by_username and get_by_email select; scalar_one_or_none
\* returns None for no row, the row for one, and raises for several.
get_by_username(U, username) == {u \in DOMAIN U : ilike(U[u].username, username)}
get_by_email(U, email) == {u \in DOMAIN U : ilike(U[u].email, email)}

\* UserRepository.create, under the id the row got.
create_user(U, id, username, email) ==
    [q \in DOMAIN U \cup {id} |->
        IF q = id
        THEN [username |-> username, email |-> email, high_score |-> 0, games_played |-> 0]
        ELSE U[q]]

\* UserRepository.update: the users row, and the username of the user's
\* ledger rows.
update_user(U, user_id, username) ==
    IF user_id \in DOMAIN U /\ username # None
    THEN [U EXCEPT ![user_id].username = username[1]]
    ELSE U

update_user_entries_all(L, U, user_id, username) ==
    IF user_id \in DOMAIN U /\ username # None
    THEN [i \in DOMAIN L |-> [L[i] EXCEPT !.username = username[1]]]
    ELSE L

update_user_entries_none(L, U, user_id, username) == L

update_user_entries(L, U, user_id, username) ==
    IF user_id \in DOMAIN U /\ username # None
    THEN [i \in DOMAIN L |->
            IF L[i].user_id = user_id THEN [L[i] EXCEPT !.username = username[1]] ELSE L[i]]
    ELSE L

\* A bearer token: the claims of the JWT and whether its signature verifies.
Token(sub, exp) == [sub |-> sub, exp |-> exp, signed |-> TRUE]
Garbage == [sub |-> "", exp |-> 0, signed |-> FALSE]

\* The time as a JWT NumericDate: jwt.encode and jwt.decode take
\* timegm(utctimetuple()), whole seconds, of a datetime.
Seconds(t) == t \div TicksPerSecond

\* create_access_token: exp is now + ACCESS_TOKEN_EXPIRE_DELTA, encoded in
\* whole seconds.
create_access_token(user_id, t) == Token(user_id, Seconds(t + TokenTTL * TicksPerSecond))

decode_access_token_noexp(token, t) ==
    IF token.signed THEN Some(token.sub) ELSE None

\* decode_access_token at time t: None for a bad signature or a passed exp
\* (jwt.decode raises when exp < the current time in whole seconds).
decode_access_token(token, t) ==
    IF token.signed /\ ~(token.exp < Seconds(t)) THEN Some(token.sub) ELSE None

\* TokenRepository._hash_token
hash_token(token) == [sha256 |-> token]

is_token_valid_always(R, token) == TRUE

\* TokenRepository.is_valid
is_token_valid(R, token) == \A row \in R : row.token_jti # hash_token(token)

\* TokenRepository.invalidate at time t: expires_at is the datetime of the
\* token's exp, or a default when the token does not decode.
invalidate_token(R, token, user_id, t) ==
    IF ~is_token_valid(R, token) THEN R
    ELSE R \cup {[token_jti |-> hash_token(token), user_id |-> user_id,
                  expires_at |-> IF decode_access_token(token, t) # None
                                 THEN token.exp * TicksPerSecond
                                 ELSE t + TokenTTL * TicksPerSecond]}

\* TokenRepository.cleanup_expired at time t.
cleanup_expired(R, t) == {row \in R : ~(row.expires_at < t)}

Unauthorized(error) == [status |-> 401, error |-> error]

\* get_current_user for the Authorization header cred (None: no header).
get_current_user(cred, U, R, t) ==
    IF cred = None THEN Unauthorized("NOT_AUTHENTICATED")
    ELSE IF ~is_token_valid(R, cred[1]) THEN Unauthorized("INVALID_TOKEN")
    ELSE IF decode_access_token(cred[1], t) = None THEN Unauthorized("INVALID_TOKEN")
    ELSE IF get_user_by_id(U, decode_access_token(cred[1], t)[1]) = None
         THEN Unauthorized("USER_NOT_FOUND")
    ELSE [status |-> 200,
          user |-> get_user_by_id(U, decode_access_token(cred[1], t)[1])[1]]

\* A request answered without a write: only the answer is kept.
Answer(r) ==
    /\ resp' = Some(r)
    /\ UNCHANGED <<users, ledger, req, revoked, now, liveVars>>

\* The ids the users rows get (uuid4), in the order they are handed out.
IdPool == <<"user-1", "user-2", "user-3">>
FreshId(U) == IdPool[CHOOSE i \in DOMAIN IdPool :
                        /\ IdPool[i] \notin DOMAIN U
                        /\ \A j \in 1..(i - 1) : IdPool[j] \in DOMAIN U]

\* POST /auth/signup
signup(username, email) ==
    LET em == get_by_email(users, email)
        un == get_by_username(users, username)
        q == [op |-> "signup", username |-> username, email |-> email]
    IN IF Cardinality(em) > 1
       THEN Answer(q @@ [status |-> 500, error |-> "MultipleResultsFound"])
       ELSE IF em # {}
       THEN Answer(q @@ [status |-> 409, error |-> "EMAIL_EXISTS"])
       ELSE IF Cardinality(un) > 1
       THEN Answer(q @@ [status |-> 500, error |-> "MultipleResultsFound"])
       ELSE IF un # {}
       THEN Answer(q @@ [status |-> 409, error |-> "USERNAME_EXISTS"])
       ELSE /\ DOMAIN users # {IdPool[i] : i \in DOMAIN IdPool}
            /\ users' = create_user(users, FreshId(users), username, email)
            /\ resp' = Some(q @@ [status |-> 201, id |-> FreshId(users),
                                  token |-> create_access_token(FreshId(users), now)])
            /\ UNCHANGED <<ledger, req, revoked, now, liveVars>>

\* POST /auth/login with the right password
login(user_id) ==
    /\ user_id \in DOMAIN users
    /\ Answer([op |-> "login", status |-> 200, id |-> user_id,
               token |-> create_access_token(user_id, now)])

\* POST /auth/logout
logout(cred) ==
    LET auth == get_current_user(cred, users, revoked, now)
        q == [op |-> "logout", cred |-> cred]
    IN IF auth.status # 200 THEN Answer(q @@ auth)
       ELSE /\ revoked' = invalidate_token(revoked, cred[1], auth.user.id, now)
            /\ resp' = Some(q @@ [status |-> 200])
            /\ UNCHANGED <<users, ledger, req, now, liveVars>>

\* GET /auth/me
get_current_user_info(cred) ==
    Answer([op |-> "me", cred |-> cred] @@ get_current_user(cred, users, revoked, now))

\* cleanup_expired_tokens, run by a scheduler
cleanup_expired_tokens ==
    /\ revoked' = cleanup_expired(revoked, now)
    /\ UNCHANGED <<users, ledger, req, resp, now, liveVars>>

\* The clock advances.
Tick ==
    /\ now < MaxTime * TicksPerSecond
    /\ now' = now + 1
    /\ UNCHANGED <<users, ledger, req, resp, revoked, liveVars>>

valid_submit_any(body) == TRUE

\* SubmitScoreRequest: score >= 0 and mode a GameMode.
valid_submit(body) == body.score >= 0 /\ body.mode \in Modes

\* POST /leaderboard/scores as a whole: the credential, the body, then the
\* first commit of DatabaseService.add_score; SubmitStats is the second.
submit_score(cred, body) ==
    LET auth == get_current_user(cred, users, revoked, now)
        q == [op |-> "submit", cred |-> cred, body |-> body]
    IN /\ Quiet
       /\ IF auth.status # 200 THEN Answer(q @@ auth)
          ELSE IF ~valid_submit(body)
          THEN Answer(q @@ [status |-> 422, error |-> "VALIDATION"])
          ELSE /\ Len(ledger) < MaxEntries
               /\ ledger' = leaderboard_add_score(ledger, auth.user.id, auth.user.username,
                                                  body.score, body.mode)
               /\ req' = [status |-> "inserted", user_id |-> auth.user.id,
                          score |-> body.score, before |-> users, cred |-> cred]
               /\ resp' = None
               /\ UNCHANGED <<users, revoked, now, liveVars>>

update_user_profile_noowner(cred, user_id, username) ==
    LET auth == get_current_user(cred, users, revoked, now)
        q == [op |-> "update", cred |-> cred, user_id |-> user_id, username |-> username]
    IN /\ Quiet
       /\ IF auth.status # 200 THEN Answer(q @@ auth)
          ELSE IF get_user_by_id(users, user_id) = None
          THEN Answer(q @@ [status |-> 404, error |-> "USER_NOT_FOUND"])
          ELSE /\ users' = update_user(users, user_id, username)
               /\ ledger' = update_user_entries(ledger, users, user_id, username)
               /\ resp' = Some(q @@ [status |-> 200])
               /\ UNCHANGED <<req, revoked, now, liveVars>>

\* PATCH /users/{user_id}
update_user_profile(cred, user_id, username) ==
    LET auth == get_current_user(cred, users, revoked, now)
        q == [op |-> "update", cred |-> cred, user_id |-> user_id, username |-> username]
        un == IF username = None THEN {} ELSE get_by_username(users, username[1])
    IN /\ Quiet
       /\ IF auth.status # 200 THEN Answer(q @@ auth)
          ELSE IF get_user_by_id(users, user_id) = None
          THEN Answer(q @@ [status |-> 404, error |-> "USER_NOT_FOUND"])
          ELSE IF auth.user.id # user_id
          THEN Answer(q @@ [status |-> 403, error |-> "FORBIDDEN"])
          ELSE IF Cardinality(un) > 1
          THEN Answer(q @@ [status |-> 500, error |-> "MultipleResultsFound"])
          ELSE IF un # {} /\ un # {user_id}
          THEN Answer(q @@ [status |-> 409, error |-> "USERNAME_EXISTS"])
          ELSE /\ users' = update_user(users, user_id, username)
               /\ ledger' = update_user_entries(ledger, users, user_id, username)
               /\ resp' = Some(q @@ [status |-> 200])
               /\ UNCHANGED <<req, revoked, now, liveVars>>

\* The leaderboard query.  Min as used for LIMIT.
Min(a, b) == IF a <= b THEN a ELSE b

\* WHERE mode = :mode, when a mode is given.
MatchingRows_any(L, mode) == DOMAIN L

MatchingRows(L, mode) == {i \in DOMAIN L : mode = None \/ L[i].mode = mode[1]}

\* LeaderboardEntry(...) of the row with id i.
to_entry(L, i) ==
    [id |-> i, username |-> L[i].username, score |-> L[i].score, mode |-> L[i].mode,
     date |-> L[i].date]

\* LeaderboardRepository.get_leaderboard: ORDER BY score DESC LIMIT :limit.
\* Every result the statement may give: the order of rows with equal scores is
\* the database's choice.
repo_get_leaderboard(L, limit, mode) ==
    LET rows == MatchingRows(L, mode)
        n == Cardinality(rows)
        orders == {f \in [1..n -> rows] :
                     /\ \A r \in rows : \E i \in 1..n : f[i] = r
                     /\ \A i, j \in 1..n : i < j => L[f[i]].score >= L[f[j]].score}
    IN {[k \in 1..Min(limit, n) |-> to_entry(L, f[k])] : f \in orders}

\* Query(ge=1, le=100) on limit.
MaxLimit == 100

valid_limit_clamped(limit) == TRUE

valid_limit(limit) == limit >= 1 /\ limit <= MaxLimit

\* GET /leaderboard?limit=&mode=
get_leaderboard(limit, mode) ==
    /\ Quiet
    /\ LET q == [op |-> "board", limit |-> limit, mode |-> mode]
       IN IF ~valid_limit(limit) \/ (mode # None /\ mode[1] \notin Modes)
          THEN Answer(q @@ [status |-> 422, error |-> "VALIDATION"])
          ELSE \E entries \in repo_get_leaderboard(ledger, limit, mode) :
                 Answer(q @@ [status |-> 200, entries |-> entries])

------------------------------------------------------------------------------
(* Initial state: an empty registry, no connection, and the tables below *)

InitLive ==
    /\ players = << >>
    /\ streams = [w \in StreamIds |-> IdleStream]
    /\ calls = NoCalls
    /\ last = None
    /\ lock = None

InitDB ==
    /\ users = [u \in UserIds |->
            [username |-> Usernames[u], high_score |-> 0, games_played |-> 0]]
    /\ ledger = <<>>
    /\ req = [status |-> "idle"]
    /\ resp = None
    /\ revoked = {}
    /\ now = 0

Init == InitLive /\ InitDB

\* The registry and its spectator streams: two connections to one session id.
StreamedIds == {"live-1"}

NextLive ==
    \/ \E w \in StreamIds, pid \in StreamedIds : StreamConnect(w, pid)
    \/ \E w \in StreamIds : StreamRejected(w)
    \/ \E w \in StreamIds : StreamAcceptFails(w)
    \/ \E w \in StreamIds : StreamAccepted(w)
    \/ \E w \in StreamIds : StreamTick(w)
    \/ \E w \in StreamIds : StreamSent(w)
    \/ \E w \in StreamIds : StreamDisconnect(w)
    \/ \E w \in StreamIds : StreamError(w)
    \/ \E w \in StreamIds : StreamClosed(w)
    \/ \E pid \in StreamedIds : AddPlayer(pid, "user-2", "walls") /\ UNCHANGED last
    \/ \E pid \in StreamedIds : RemovePlayer(pid) /\ UNCHANGED last
    \/ \E pid \in StreamedIds, snap \in Snapshots, is_alive \in BOOLEAN :
         UpdateGameState(pid, snap, is_alive) /\ UNCHANGED last
    \/ \E pid \in StreamedIds :
         /\ pid \in DOMAIN players => players[pid].watcher_count < MaxWatch
         /\ join_as_watcher(pid)
         /\ UNCHANGED <<calls, last>>
    \/ \E pid \in StreamedIds : leave_as_watcher(pid) /\ UNCHANGED <<calls, last>>

SpecLive == Init /\ [][NextLive]_vars

\* The registry and its spectator streams with no REST watch or unwatch call:
\* watcher counts move only by the streams and by add_player.
NextStreams ==
    \/ \E w \in StreamIds, pid \in StreamedIds : StreamConnect(w, pid)
    \/ \E w \in StreamIds : StreamRejected(w)
    \/ \E w \in StreamIds : StreamAcceptFails(w)
    \/ \E w \in StreamIds : StreamAccepted(w)
    \/ \E w \in StreamIds : StreamTick(w)
    \/ \E w \in StreamIds : StreamSent(w)
    \/ \E w \in StreamIds : StreamDisconnect(w)
    \/ \E w \in StreamIds : StreamError(w)
    \/ \E w \in StreamIds : StreamClosed(w)
    \/ \E pid \in StreamedIds : AddPlayer(pid, "user-2", "walls") /\ UNCHANGED last
    \/ \E pid \in StreamedIds : RemovePlayer(pid) /\ UNCHANGED last
    \/ \E pid \in StreamedIds, snap \in Snapshots, is_alive \in BOOLEAN :
         UpdateGameState(pid, snap, is_alive) /\ UNCHANGED last

SpecStreams == Init /\ [][NextStreams]_vars

\* One watcher that stays connected: accept and send_json return, the sleep
\* ends and the client keeps reading, so the stream's own steps are taken
\* whenever they stay possible; the registry calls are the players' and may
\* come at any time or never.
ConnectedWatchers == {"w1"}

NextWatched ==
    \/ \E w \in ConnectedWatchers, pid \in StreamedIds : StreamConnect(w, pid)
    \/ \E w \in ConnectedWatchers : StreamRejected(w)
    \/ \E w \in ConnectedWatchers : StreamAccepted(w)
    \/ \E w \in ConnectedWatchers : StreamTick(w)
    \/ \E w \in ConnectedWatchers : StreamSent(w)
    \/ \E w \in ConnectedWatchers : WatcherReads(w)
    \/ \E pid \in StreamedIds : AddPlayer(pid, "user-2", "walls") /\ UNCHANGED last
    \/ \E pid \in StreamedIds : RemovePlayer(pid) /\ UNCHANGED last
    \/ \E pid \in StreamedIds, snap \in Snapshots, is_alive \in BOOLEAN :
         UpdateGameState(pid, snap, is_alive) /\ UNCHANGED last

SpecWatched ==
    /\ Init /\ [][NextWatched]_vars
    /\ \A w \in ConnectedWatchers :
        /\ WF_vars(StreamAccepted(w))
        /\ WF_vars(StreamTick(w))
        /\ WF_vars(StreamSent(w))
        /\ WF_vars(WatcherReads(w))

\* Score submissions, with the failure between the two commits, and the stats
\* read; two of the accounts submit.
ScoreUsers == {"user-1", "user-2"}

NextScore ==
    \/ \E u \in ScoreUsers, in \in SubmitInputs : SubmitInsert(u, in.score, in.mode)
    \/ SubmitStats
    \/ SubmitFails
    \/ \E u \in ScoreUsers \cup {NoAccount} : get_user_stats(u)

SpecScore == Init /\ [][NextScore]_vars

\* Score submissions and the two reads that return a rank.
NextRank ==
    \/ \E u \in UserIds, in \in SubmitInputs : SubmitInsert(u, in.score, in.mode)
    \/ SubmitStats
    \/ \E u \in UserIds \cup {NoAccount} : get_user_rank(u)
    \/ \E u \in UserIds \cup {NoAccount} : get_user_stats(u)

SpecRank == Init /\ [][NextRank]_vars

\* REST watch and unwatch calls on sessions that exist, each recorded in calls.
NextWatch ==
    \/ \E pid \in PlayerIds : AddPlayer(pid, "user-2", "walls") /\ UNCHANGED last
    \/ \E pid \in DOMAIN players :
         /\ Len(calls[pid]) < MaxCalls
         /\ join_as_watcher(pid)
         /\ calls' = [calls EXCEPT ![pid] = Append(@, "join")]
         /\ UNCHANGED last
    \/ \E pid \in DOMAIN players :
         /\ Len(calls[pid]) < MaxCalls
         /\ leave_as_watcher(pid)
         /\ calls' = [calls EXCEPT ![pid] = Append(@, "leave")]
         /\ UNCHANGED last

SpecWatch == Init /\ [][NextWatch]_vars

\* The registry alone: two session ids, two users, every call on ids present
\* or not, each call and its outcome kept in last.
LiveUsers == {"user-1", "user-2"}

NextRegistry ==
    \/ \E pid \in PlayerIds, uid \in LiveUsers, mode \in Modes :
         AddPlayer(pid, uid, mode) /\ last' = Call("add_player", pid, None)
    \/ \E pid \in PlayerIds :
         RemovePlayer(pid) /\ last' = Call("remove_player", pid, None)
    \/ \E pid \in PlayerIds, snap \in RegistrySnapshots, is_alive \in BOOLEAN :
         UpdateGameState(pid, snap, is_alive)
            /\ last' = Call("update_game_state", pid, None)
    \/ \E pid \in PlayerIds :
         /\ pid \in DOMAIN players => players[pid].watcher_count < MaxJoins
         /\ join_as_watcher(pid)
         /\ last' = Call("join", pid, watch_response(increment_watchers(players, pid).ret))
         /\ UNCHANGED calls
    \/ \E pid \in PlayerIds :
         /\ leave_as_watcher(pid)
         /\ last' = Call("leave", pid, watch_response(decrement_watchers(players, pid).ret))
         /\ UNCHANGED calls
    \/ \E pid \in PlayerIds : get_live_player(pid)

SpecRegistry == Init /\ [][NextRegistry]_vars

\* Score submissions of two users and the leaderboard query, with limits on
\* both sides of the two ends of the allowed range and a mode that is none.
BoardLimits == {0, 1, 2, 3, MaxLimit, MaxLimit + 1}
BoardModes == {None} \cup {Some(mode) : mode \in Modes} \cup {Some("classic")}

NextBoard ==
    \/ \E u \in ScoreUsers, in \in SubmitInputs : SubmitInsert(u, in.score, in.mode)
    \/ SubmitStats
    \/ \E limit \in BoardLimits, mode \in BoardModes : get_leaderboard(limit, mode)

SpecBoard == Init /\ [][NextBoard]_vars

\* Accounts: signups, profile updates and score submissions on a users table
\* that starts empty; the names differ by case or match as ilike patterns.
AccountNames == { <<"a", "b", "c">>, <<"a", "_", "c">>, <<"A", "_", "C">> }
AccountEmails == { <<"p", "@", "t">>, <<"P", "@", "t">>, <<"q", "@", "t">> }
AccountBody == [score |-> 1, mode |-> "walls"]

InitAccounts ==
    /\ InitLive
    /\ users = << >>
    /\ ledger = <<>>
    /\ req = [status |-> "idle"]
    /\ resp = None
    /\ revoked = {}
    /\ now = 0

NextAccounts ==
    \/ \E username \in AccountNames, email \in AccountEmails : signup(username, email)
    \/ \E u \in DOMAIN users, user_id \in UserIds \cup {NoAccount},
          username \in AccountNames :
         update_user_profile(Some(Token(u, TokenTTL)), user_id, Some(username))
    \/ \E u \in DOMAIN users : submit_score(Some(Token(u, TokenTTL)), AccountBody)
    \/ SubmitStats

SpecAccounts == InitAccounts /\ [][NextAccounts]_vars

\* Credentials: two accounts, the clock, logout and the cleanup task, and the
\* requests that need a credential, made with none, with a token that does not
\* decode, and with every token a login of user-1 up to now has issued.
AuthBodies ==
    { [score |-> 1, mode |-> "walls"], [score |-> -1, mode |-> "walls"],
      [score |-> 1, mode |-> "classic"] }

Credentials(t) ==
    {None, Some(Garbage)} \cup {Some(create_access_token("user-1", s)) : s \in 0..t}

InitAuth ==
    /\ InitLive
    /\ users = [u \in {"user-1", "user-2"} |->
            [username |-> IF u = "user-1" THEN <<"a", "b", "c">> ELSE <<"a", "_", "c">>,
             email |-> IF u = "user-1" THEN <<"p", "@", "t">> ELSE <<"q", "@", "t">>,
             high_score |-> 0, games_played |-> 0]]
    /\ ledger = <<>>
    /\ req = [status |-> "idle"]
    /\ resp = None
    /\ revoked = {}
    /\ now = 0

NextAuth ==
    \/ Tick
    \/ login("user-1")
    \/ \E cred \in Credentials(now) : logout(cred)
    \/ \E cred \in Credentials(now) : get_current_user_info(cred)
    \/ \E cred \in Credentials(now), body \in AuthBodies :
         (valid_submit(body) => ledger = <<>>) /\ submit_score(cred, body)
    \/ SubmitStats
    \/ \E cred \in Credentials(now) :
         update_user_profile(cred, "user-1", Some(<<"x", "y", "z">>))
    \/ cleanup_expired_tokens

SpecAuth == InitAuth /\ [][NextAuth]_vars

------------------------------------------------------------------------------
(* Claims about the live registry and the spectator stream *)

\* C1: in every reachable state every session's watcher_count is >= 0.
C1_WatcherCountNonNegative ==
    \A pid \in DOMAIN players : players[pid].watcher_count >= 0

\* C1, its case: a stream that never incremented the session it is attached to
\* has left through the disconnect handler, whose decrement met a count of 0.
C1_Witness ==
    \E w \in StreamIds :
        /\ streams[w].exit = "disconnect"
        /\ ~streams[w].inc
        /\ streams[w].decs = 1
        /\ streams[w].player_id \in DOMAIN players
        /\ players[streams[w].player_id].watcher_count = 0

\* C2: a stream that has incremented the watcher count has made exactly one
\* decrement when it has left, by whichever of the three paths (ended,
\* disconnect, error).
C2_DecrementOnEveryExit ==
    \A w \in StreamIds :
        (streams[w].inc /\ streams[w].exit \in {"ended", "disconnect", "error"})
            => streams[w].decs = 1

C4_EndedSessionGetsGameOver ==
    \A w \in StreamIds :
        streams[w].pc = "sending_state" => streams[w].sending[1].data.isAlive = TRUE

\* C5: a session leaves the registry only after the terminal push: a stream loop
\* that finds its session missing has already been sent a snapshot with the
\* game-over state (isAlive = FALSE).
C5_RetiredOnlyAfterTerminalPush ==
    \A w \in StreamIds :
        streams[w].pc = "sending_over" =>
            \E i \in DOMAIN streams[w].msgs : streams[w].msgs[i].data.isAlive = FALSE

CountOf(seq, x) == Cardinality({i \in DOMAIN seq : seq[i] = x})
Balance(seq) == CountOf(seq, "join") - CountOf(seq, "leave")
LowestBalance(seq) ==
    SetMin({Balance(SubSeq(seq, 1, k)) : k \in 0..Len(seq)})

------------------------------------------------------------------------------
(* Claims about the score ledger, the stat cache and the ranking *)

EntriesOf(L, u) == {i \in DOMAIN L : L[i].user_id = u}
BestScore(L, u) == IF EntriesOf(L, u) = {} THEN 0 ELSE SetMax({L[i].score : i \in EntriesOf(L, u)})
CacheConsistent(U, L) == \A u \in DOMAIN U : U[u].high_score = BestScore(L, u)

\* C7: the ledger row and the owner's stat bump are applied together or not at
\* all: whenever no add_score is in progress, every user's games_played counts
\* that user's ledger rows.
C7_EntryAndStatsTogether ==
    Quiet => \A u \in DOMAIN users :
                users[u].games_played = Cardinality(EntriesOf(ledger, u))

\* C8: a completed submission that started with every high_score equal to the
\* user's best ledger score (0 with no row) ends with that equality, for all users.
C8_HighScoreIsBestEntry ==
    (req.status = "completed" /\ CacheConsistent(req.before, SubSeq(ledger, 1, Len(ledger) - 1)))
        => CacheConsistent(users, ledger)

\* C8, its case: the submitted score is below the user's earlier best.
C8_Witness ==
    /\ req.status = "completed"
    /\ CacheConsistent(req.before, SubSeq(ledger, 1, Len(ledger) - 1))
    /\ req.score < req.before[req.user_id].high_score
    /\ Cardinality(EntriesOf(ledger, req.user_id)) >= 2

\* C9: the stats read after a completed submission of s by a user show that
\* user's games_played one higher and high_score = max(previous, s), and show
\* every other user's stats as they were.
C9_StatsAfterSubmit ==
    (resp # None /\ resp[1].op = "stats" /\ resp[1].status = 200 /\ req.status = "completed")
        => LET u == resp[1].user_id
               old == req.before[u]
           IN IF u = req.user_id
              THEN /\ resp[1].games_played = old.games_played + 1
                   /\ resp[1].high_score = Max(old.high_score, req.score)
              ELSE /\ resp[1].games_played = old.games_played
                   /\ resp[1].high_score = old.high_score

\* C9, its case: the submitter's stats are read after a submission that did not
\* raise the high score of a user who had played before.
C9_Witness ==
    /\ resp # None /\ resp[1].op = "stats" /\ resp[1].status = 200
    /\ req.status = "completed"
    /\ resp[1].user_id = req.user_id
    /\ req.before[req.user_id].games_played >= 1
    /\ req.score < req.before[req.user_id].high_score

\* The descending orders of the users that have a ledger row.
ScoringUsers(L) == {L[i].user_id : i \in DOMAIN L}
DescendingOrders(L) ==
    LET S == ScoringUsers(L)
        n == Cardinality(S)
    IN {f \in [1..n -> S] :
            /\ \A u \in S : \E i \in 1..n : f[i] = u
            /\ \A i, j \in 1..n : i < j => BestScore(L, f[i]) >= BestScore(L, f[j])}

\* C10: the rank returned for an existing user with a ledger row is that user's
\* 1-based position in a list of the distinct scoring users sorted descending by
\* best score, the best being taken over all the user's rows of both modes.
C10_RankIsPosition ==
    (resp # None /\ resp[1].op = "rank" /\ resp[1].status = 200
        /\ resp[1].user_id \in ScoringUsers(ledger))
        => \E f \in DescendingOrders(ledger) :
                /\ resp[1].rank \in DOMAIN f
                /\ f[resp[1].rank] = resp[1].user_id

\* C10, its case: the ranked user has rows in both modes, the best of them not
\* the latest, and another user is ranked above.
C10_Witness ==
    /\ resp # None /\ resp[1].op = "rank" /\ resp[1].status = 200
    /\ resp[1].rank = 2
    /\ LET u == resp[1].user_id
       IN /\ {ledger[i].mode : i \in EntriesOf(ledger, u)} = Modes
          /\ \E i \in EntriesOf(ledger, u) : ledger[i].score < BestScore(ledger, u)

\* The rank response held in resp, if it is one with a rank.
RankAnswered == resp # None /\ resp[1].op = "rank" /\ resp[1].status = 200

\* C11: when the queried user's best score is strictly greater than the best
\* score of every other scoring user, the rank returned is 1.
C11_TopScorerRankedFirst ==
    (/\ RankAnswered
     /\ resp[1].user_id \in ScoringUsers(ledger)
     /\ \A v \in ScoringUsers(ledger) \ {resp[1].user_id} :
            BestScore(ledger, resp[1].user_id) > BestScore(ledger, v))
        => resp[1].rank = 1

\* C11, its case: the rank is read right after a completed submission of the
\* queried user, whose earlier best was below another user's best and whose
\* new score is above it.
C11_Witness ==
    /\ RankAnswered /\ resp[1].rank = 1
    /\ req.status = "completed" /\ req.user_id = resp[1].user_id
    /\ ledger[Len(ledger)].user_id = resp[1].user_id
    /\ \E v \in ScoringUsers(ledger) \ {resp[1].user_id} :
         /\ BestScore(ledger, v) < ledger[Len(ledger)].score
         /\ \E i \in EntriesOf(ledger, resp[1].user_id) :
                i < Len(ledger) /\ ledger[i].score < BestScore(ledger, v)

C13_NotFoundOrRank ==
    (resp # None /\ resp[1].op = "rank")
        => IF resp[1].user_id \in DOMAIN users
           THEN /\ resp[1].status = 200
                /\ resp[1].rank \in 1..(Cardinality(ScoringUsers(ledger)) + 1)
           ELSE /\ resp[1].status = 404
                /\ resp[1].error = "USER_NOT_FOUND"
                /\ "rank" \notin DOMAIN resp[1]

\* C13, its case: the query for the id without an account, made while the
\* ledger has rows of two users.
C13_Witness ==
    /\ resp # None /\ resp[1].op = "rank"
    /\ resp[1].user_id = NoAccount /\ resp[1].status = 404
    /\ Cardinality(ScoringUsers(ledger)) = 2

\* C14: with the ledger unchanged, a rank query repeated for the same user
\* returns the same rank, and rank queries for two different scoring users
\* return different ranks.
C14_RanksDeterministicAndDistinct ==
    [][(RankAnswered /\ RankAnswered' /\ ledger' = ledger)
        => /\ resp'[1].user_id = resp[1].user_id => resp'[1].rank = resp[1].rank
           /\ (/\ resp'[1].user_id # resp[1].user_id
               /\ {resp[1].user_id, resp'[1].user_id} \subseteq ScoringUsers(ledger))
                 => resp'[1].rank # resp[1].rank]_vars

\* The game fields of a view or of a message's data, standing for one write:
\* those add_player wrote, or those of one update_game_state call.
OneWrite(snake, food, direction, score, is_alive) ==
    \/ /\ snake = InitialSnake /\ food = InitialFood /\ direction = "RIGHT"
       /\ score = 0 /\ is_alive
    \/ \E snap \in RegistrySnapshots :
         /\ snake = snap.snake /\ food = snap.food
         /\ direction = snap.direction /\ score = snap.score

\* C15: every gameState message the stream has built from a get_player read,
\* whatever updates ran before and after the read, carries the snake, food,
\* direction, score and alive flag of one single write.
C15_ReadIsOneWrite ==
    \A w \in StreamIds :
        \A msg \in {streams[w].msgs[i] : i \in DOMAIN streams[w].msgs}
                    \cup {streams[w].sending[i] : i \in DOMAIN streams[w].sending} :
            msg.type = "gameState"
                => OneWrite(msg.data.snake, msg.data.food, msg.data.direction,
                            msg.data.score, msg.data.isAlive)

\* C15, its case: one watcher got the state add_player wrote and then the
\* state of an update, and the other watcher's read of the updated state is
\* being sent.
C15_Witness ==
    /\ Len(streams["w1"].msgs) = 2
    /\ streams["w1"].msgs[1].type = "gameState" /\ streams["w1"].msgs[1].data.score = 0
    /\ streams["w1"].msgs[2].type = "gameState" /\ streams["w1"].msgs[2].data.score = 10
    /\ streams["w2"].sending # None
    /\ streams["w2"].sending[1].type = "gameState"
    /\ streams["w2"].sending[1].data.score = 10

\* C16: a call other than an add_player on the same id leaves the alive flag
\* of a session false when it was false before the call and the session is
\* still in the registry.
C16_EndedStaysEnded ==
    last # None =>
        \A pid \in DOMAIN last[1].before \cap DOMAIN players :
            (/\ ~last[1].before[pid].is_alive
             /\ ~(last[1].op = "add_player" /\ last[1].player_id = pid))
                => ~players[pid].is_alive

\* C17: no two entries of the registry have the same user_id.
C17_OneSessionPerUser ==
    \A p, q \in DOMAIN players :
        p # q => players[p].user_id # players[q].user_id

\* C18: after update_game_state on an id that was not in the registry, the
\* registry is what it was before the call: no entry is added and no entry
\* has changed.
C18_UpdateOfMissingIsNoop ==
    (/\ last # None /\ last[1].op = "update_game_state"
     /\ last[1].player_id \notin DOMAIN last[1].before)
        => players = last[1].before

\* C18, its case: the update is made on an id that is absent while the other
\* session is there, watched and ended.
C18_Witness ==
    /\ last # None /\ last[1].op = "update_game_state"
    /\ last[1].player_id \notin DOMAIN last[1].before
    /\ \E q \in DOMAIN players :
         players[q].watcher_count > 0 /\ ~players[q].is_alive

\* C19: POST and DELETE watch on an id that is not in the registry answer 404
\* PLAYER_NOT_FOUND and leave the registry as it was.
C19_WatchOfMissingIsNotFound ==
    (/\ last # None /\ last[1].op \in {"join", "leave"}
     /\ last[1].player_id \notin DOMAIN last[1].before)
        => /\ last[1].ret = NotFound
           /\ players = last[1].before

\* C19, its case: DELETE watch on an absent id while the other session has
\* watchers.
C19_Witness ==
    /\ last # None /\ last[1].op = "leave"
    /\ last[1].player_id \notin DOMAIN last[1].before
    /\ \E q \in DOMAIN players : players[q].watcher_count > 0

\* C20: on a session in the registry with watcher count c, POST watch answers
\* 200 with c + 1 and DELETE watch answers 200 with c - 1 if c > 0 and with 0 if
\* c = 0; a read of the session made next returns the answered count.
C20_WatchReturnsNewCount ==
    (/\ last # None /\ last[1].op \in {"join", "leave"}
     /\ last[1].player_id \in DOMAIN last[1].before)
        => LET c == last[1].before[last[1].player_id].watcher_count
               n == IF last[1].op = "join" THEN c + 1
                    ELSE IF c > 0 THEN c - 1 ELSE 0
           IN /\ last[1].ret = [status |-> 200, watcherCount |-> n]
              /\ live_player_response(players, last[1].player_id).status = 200
              /\ live_player_response(players, last[1].player_id).player.watcher_count = n

\* C20, its case: DELETE watch on a session whose count is 0.
C20_Witness ==
    /\ last # None /\ last[1].op = "leave"
    /\ last[1].player_id \in DOMAIN last[1].before
    /\ last[1].before[last[1].player_id].watcher_count = 0
    /\ last[1].ret = [status |-> 200, watcherCount |-> 0]

\* C21: a connection whose existence check finds no session goes to the close
\* with code 4004 without being accepted, and that close is all that happens:
\* the registry is not touched, no message is built or sent, and no increment
\* or decrement is made for the connection.
C21_MissingSessionRejected ==
    [][\A w \in StreamIds :
         /\ (/\ streams[w].pc = "idle" /\ streams'[w].pc # "idle"
             /\ streams'[w].player_id \notin DOMAIN players)
               => streams'[w].pc = "closing_not_found"
         /\ (streams[w].pc = "closing_not_found" /\ streams'[w] # streams[w])
               => /\ players' = players
                  /\ streams'[w].pc = "done" /\ streams'[w].close_code = 4004
                  /\ streams'[w].msgs = <<>> /\ streams'[w].sending = None
                  /\ ~streams'[w].inc /\ streams'[w].decs = 0]_vars

\* C21, its case: the connection was closed as not found while the other
\* connection watches the session, started in between.
C21_Witness ==
    \E w, v \in StreamIds :
        /\ streams[w].exit = "not_found" /\ streams[w].close_code = 4004
        /\ streams[v].inc /\ streams[v].pc = "sleeping"
        /\ streams[v].player_id \in DOMAIN players
        /\ players[streams[v].player_id].watcher_count = 1

BeforeAccept(s) ==
    s.pc \in {"idle", "closing_not_found", "accepting"}
        => ~s.inc /\ s.msgs = <<>> /\ s.sending = None

\* After an increment that found the session, the gameState comes before any
\* sleep and is the first message received.
SnapshotFirst(s) ==
    s.inc => /\ s.pc # "sleeping" \/ s.msgs # <<>>
             /\ s.msgs # <<>> => s.msgs[1].type = "gameState"
             /\ s.msgs = <<>> =>
                    \/ s.pc = "sending_initial" /\ s.sending[1].type = "gameState"
                    \/ s.exit \in {"disconnect", "error"}

C23_EntriesNeverMutated ==
    [][\A i \in DOMAIN ledger : i \in DOMAIN ledger' /\ ledger'[i] = ledger[i]]_vars

\* C23, with the username set apart: every row stays in the ledger with its
\* user_id, score, mode and date; its username changes only in a profile
\* update of its owner that is answered 200, and becomes the new username.
C23_EntriesKeepAllButUsername ==
    [][\A i \in DOMAIN ledger :
         /\ i \in DOMAIN ledger'
         /\ ledger'[i].user_id = ledger[i].user_id
         /\ ledger'[i].score = ledger[i].score
         /\ ledger'[i].mode = ledger[i].mode
         /\ ledger'[i].date = ledger[i].date
         /\ ledger'[i].username # ledger[i].username
              => /\ resp' # None /\ resp'[1].op = "update" /\ resp'[1].status = 200
                 /\ resp'[1].user_id = ledger[i].user_id
                 /\ ledger'[i].username = resp'[1].username[1]]_vars

\* C23, its case: a profile update has just renamed the owner of the first
\* and third rows; the second row is another user's and keeps its username.
C23_Witness ==
    /\ Len(ledger) = 3
    /\ ledger[1].user_id # ledger[2].user_id
    /\ ledger[3].user_id = ledger[1].user_id
    /\ ledger[1].username = ledger[3].username
    /\ resp # None /\ resp[1].op = "update" /\ resp[1].status = 200
    /\ resp[1].user_id = ledger[1].user_id
    /\ ledger[1].username = resp[1].username[1]
    /\ ledger[2].username # ledger[1].username

\* Equality of two names or emails without regard to case.
CaseEq(a, b) == Len(a) = Len(b) /\ \A i \in DOMAIN a : Lower(a[i]) = Lower(b[i])

\* C30: no two users have the same username or the same email up to case; and
\* a signup whose username or email, or a profile update whose username, equals
\* up to case that of another user is answered 409 and changes no table.
C30_IdentityUnique ==
    /\ [](\A u, v \in DOMAIN users :
            u # v => /\ ~CaseEq(users[u].username, users[v].username)
                     /\ ~CaseEq(users[u].email, users[v].email))
    /\ [][(resp' # resp /\ resp' # None)
            => /\ (/\ resp'[1].op = "signup"
                   /\ \E u \in DOMAIN users :
                        \/ CaseEq(users[u].username, resp'[1].username)
                        \/ CaseEq(users[u].email, resp'[1].email))
                     => resp'[1].status = 409 /\ users' = users /\ ledger' = ledger
               /\ (/\ resp'[1].op = "update" /\ resp'[1].status \notin {401, 403, 404}
                   /\ \E u \in DOMAIN users \ {resp'[1].user_id} :
                        CaseEq(users[u].username, resp'[1].username[1]))
                     => resp'[1].status = 409 /\ users' = users /\ ledger' = ledger]_vars

\* The leaderboard answer held in resp, if it is one with entries.
BoardAnswered == resp # None /\ resp[1].op = "board" /\ resp[1].status = 200

\* C24: with the ledger unchanged, a leaderboard query repeated with the same
\* limit and mode returns the same entries in the same order.
C24_BoardRepeatable ==
    [][(/\ BoardAnswered /\ BoardAnswered' /\ ledger' = ledger
        /\ resp'[1].limit = resp[1].limit /\ resp'[1].mode = resp[1].mode)
          => resp'[1].entries = resp[1].entries]_vars

\* C25: the entries returned are rows of the ledger, each at most once, all of
\* the requested mode when one is given, sorted by score descending, as many
\* as min(limit, number of matching rows), and no matching row left out has a
\* score above that of an entry returned.
C25_BoardIsTop ==
    BoardAnswered =>
        LET e == resp[1].entries
            matching == {i \in DOMAIN ledger :
                            resp[1].mode = None \/ ledger[i].mode = resp[1].mode[1]}
            ids == {e[k].id : k \in DOMAIN e}
        IN /\ Len(e) = Min(resp[1].limit, Cardinality(matching))
           /\ ids \subseteq matching /\ Cardinality(ids) = Len(e)
           /\ \A k \in DOMAIN e :
                /\ e[k].score = ledger[e[k].id].score
                /\ e[k].mode = ledger[e[k].id].mode
                /\ e[k].username = ledger[e[k].id].username
           /\ \A j, k \in DOMAIN e : j < k => e[j].score >= e[k].score
           /\ \A i \in matching \ ids : \A k \in DOMAIN e : ledger[i].score <= e[k].score

\* C25, its case: a query by mode with a limit below the number of matching
\* rows, a matching row left out and a row of the other mode with a higher
\* score than the entries returned.
C25_Witness ==
    /\ BoardAnswered /\ resp[1].mode = Some("walls") /\ resp[1].limit = 1
    /\ Len(resp[1].entries) = 1
    /\ Cardinality({i \in DOMAIN ledger : ledger[i].mode = "walls"}) = 2
    /\ \E i \in DOMAIN ledger :
         ledger[i].mode = "pass-through" /\ ledger[i].score > resp[1].entries[1].score

\* C26: a leaderboard query with a limit below 1 or above 100 is answered 422
\* and carries no entries; with a limit in 1..100 and a mode that is absent or
\* a game mode it is answered 200, with as many entries as the limit allows.
C26_LimitValidated ==
    (resp # None /\ resp[1].op = "board")
        => IF resp[1].limit < 1 \/ resp[1].limit > 100
           THEN resp[1].status = 422 /\ "entries" \notin DOMAIN resp[1]
           ELSE (resp[1].mode = None \/ resp[1].mode[1] \in Modes)
                    => /\ resp[1].status = 200
                       /\ Len(resp[1].entries) = Min(resp[1].limit, Cardinality(
                            {i \in DOMAIN ledger :
                                resp[1].mode = None \/ ledger[i].mode = resp[1].mode[1]}))

\* C26, its case: limit 101 refused while the ledger has three rows.
C26_Witness ==
    /\ resp # None /\ resp[1].op = "board"
    /\ resp[1].limit = 101 /\ resp[1].status = 422
    /\ Len(ledger) = 3

\* A credential that must be refused: none, one that does not decode, one
\* whose exp has passed, or one whose hash is in invalidated_tokens.
BadCredential(cred) ==
    \/ cred = None
    \/ ~cred[1].signed
    \/ cred[1].exp < Seconds(now)
    \/ \E row \in revoked : row.token_jti = hash_token(cred[1])

\* The answer resp' of a request served in this step.
Served(ops) == resp' # resp /\ resp' # None /\ resp'[1].op \in ops

\* C27: every ledger row has a score >= 0 and a mode of the two; a submission
\* with a good credential and a negative score or an unknown mode is answered
\* 422, and whatever the credential it leaves the ledger and the users as
\* they were.
C27_OnlyValidScoresStored ==
    /\ [](\A i \in DOMAIN ledger : ledger[i].score >= 0 /\ ledger[i].mode \in Modes)
    /\ [][(/\ Served({"submit"})
           /\ (resp'[1].body.score < 0 \/ resp'[1].body.mode \notin Modes))
             => /\ ~BadCredential(resp'[1].cred) => resp'[1].status = 422
                /\ resp'[1].status \in {401, 422}
                /\ ledger' = ledger /\ users' = users /\ req' = req]_vars

\* C27, its case: a negative score sent with a good token is refused while the
\* ledger holds the row of an earlier submission.
C27_Witness ==
    /\ resp # None /\ resp[1].op = "submit" /\ resp[1].status = 422
    /\ resp[1].body.score < 0
    /\ Len(ledger) = 1 /\ users["user-1"].games_played = 1

RefusedNext(token) ==
    get_current_user(Some(token), users', revoked', now').status = 401

\* C29: a logout answered 200 leaves its token refused; a token that a logout
\* has revoked (invalidate is the only writer of invalidated_tokens) is still
\* refused after every step, whoever takes it; and a request with a signed,
\* unexpired token that no logout has revoked is not answered 401.
C29_LogoutRevokesThatToken ==
    /\ [][(Served({"logout"}) /\ resp'[1].status = 200)
            => RefusedNext(resp'[1].cred[1])]_vars
    /\ [][\A row \in revoked : RefusedNext(row.token_jti.sha256)]_vars
    /\ [][(/\ Served({"submit", "logout", "update", "me"})
           /\ resp'[1].cred # None /\ resp'[1].cred[1].signed
           /\ ~(resp'[1].cred[1].exp < Seconds(now))
           /\ \A row \in revoked : row.token_jti # hash_token(resp'[1].cred[1]))
            => resp'[1].status # 401]_vars

\* C31: a profile update made with a good credential for a target that does
\* not exist is answered 404; for an existing target other than the caller it
\* is answered 403 and changes neither the users nor the ledger; and a user's
\* username changes only in a step that answers 200 to an update whose
\* credential is that user's.
C31_OnlyOwnerRenames ==
    /\ [][(Served({"update"}) /\ ~BadCredential(resp'[1].cred))
            => /\ resp'[1].user_id \notin DOMAIN users
                    => resp'[1].status = 404 /\ resp'[1].error = "USER_NOT_FOUND"
               /\ (/\ resp'[1].user_id \in DOMAIN users
                   /\ resp'[1].cred[1].sub # resp'[1].user_id)
                    => /\ resp'[1].status = 403 /\ resp'[1].error = "FORBIDDEN"
                       /\ users' = users /\ ledger' = ledger]_vars
    /\ [][\A u \in DOMAIN users :
            users'[u].username # users[u].username
                => /\ resp' # None /\ resp'[1].op = "update" /\ resp'[1].status = 200
                   /\ resp'[1].user_id = u /\ resp'[1].cred[1].sub = u]_vars

\* C31, its case: an update of another user's profile has been refused while
\* the target owns a ledger row and keeps a username other than the one asked.
C31_Witness ==
    /\ resp # None /\ resp[1].op = "update" /\ resp[1].status = 403
    /\ resp[1].user_id \in DOMAIN users /\ resp[1].cred[1].sub # resp[1].user_id
    /\ \E i \in DOMAIN ledger : ledger[i].user_id = resp[1].user_id
    /\ users[resp[1].user_id].username # resp[1].username[1]

\* C32: after add_player the addressed session is in the registry with the
\* snake (10,10),(9,10),(8,10) head first, the food at (15,12), direction RIGHT,
\* score 0, alive, no watcher, and the id, user, username and mode of the call,
\* whatever the registry held before, an entry of the same id included.
C32_NewSessionInitialState ==
    (last # None /\ last[1].op = "add_player")
        => /\ last[1].player_id \in DOMAIN players
           /\ LET p == players[last[1].player_id]
              IN /\ p.snake = <<[x |-> 10, y |-> 10], [x |-> 9, y |-> 10], [x |-> 8, y |-> 10]>>
                 /\ p.food = [x |-> 15, y |-> 12]
                 /\ p.direction = "RIGHT"
                 /\ p.score = 0
                 /\ p.is_alive
                 /\ p.watcher_count = 0
                 /\ p.id = last[1].player_id
                 /\ p.user_id \in LiveUsers /\ p.username = Usernames[p.user_id]
                 /\ p.mode \in Modes

\* C32, its case: add_player on an id whose earlier session had moved, scored,
\* ended and was watched, while the other session is there too.
C32_Witness ==
    /\ last # None /\ last[1].op = "add_player"
    /\ last[1].player_id \in DOMAIN last[1].before
    /\ LET b == last[1].before[last[1].player_id]
       IN b.score > 0 /\ ~b.is_alive /\ b.watcher_count > 0 /\ b.direction # "RIGHT"
    /\ DOMAIN players = PlayerIds

\* C39: update_game_state adds and removes no session, leaves every other
\* session as it was, and leaves the id, user_id, username, mode and
\* watcher_count of the addressed session as they were.
C39_UpdateFrame ==
    (last # None /\ last[1].op = "update_game_state")
        => /\ DOMAIN players = DOMAIN last[1].before
           /\ \A q \in DOMAIN players :
                LET b == last[1].before[q]
                IN IF q # last[1].player_id THEN players[q] = b
                   ELSE /\ players[q].id = b.id
                        /\ players[q].user_id = b.user_id
                        /\ players[q].username = b.username
                        /\ players[q].mode = b.mode
                        /\ players[q].watcher_count = b.watcher_count

\* C39, its case: the update has changed the game state of a watched session
\* while the other session, watched too, is in the registry.
C39_Witness ==
    /\ last # None /\ last[1].op = "update_game_state"
    /\ DOMAIN last[1].before = PlayerIds
    /\ players # last[1].before
    /\ \A q \in PlayerIds : last[1].before[q].watcher_count > 0
    /\ last[1].before[last[1].player_id].mode = "pass-through"

\* The positions at which a stream task is suspended in network I/O or in
\* its cadence sleep.
AwaitingIO ==
    {"closing_not_found", "accepting", "sleeping", "closing"} \cup Sending

Attached(pid) ==
    {w \in StreamIds : /\ streams[w].player_id = pid /\ streams[w].inc
                       /\ streams[w].decs = 0 /\ streams[w].pc # "done"}

\* C34: with no REST watch or unwatch call, every session's watcher_count is
\* the number of streams attached to it.
C34_CountIsAttachedStreams ==
    \A pid \in DOMAIN players : players[pid].watcher_count = Cardinality(Attached(pid))

\* The session a stream has joined is no longer in the registry while the
\* stream is in its loop.
RemovedWhileStreaming(w) ==
    /\ streams[w].inc /\ streams[w].pc \in {"sleeping"} \cup Sending
    /\ streams[w].player_id \notin DOMAIN players

\* C35: once the session of a watcher that stays connected has been removed,
\* the watcher is eventually sent gameOver and its stream ends, whatever the
\* registry calls made afterwards.
C35_RemovedLeadsToGameOver ==
    \A w \in ConnectedWatchers :
        RemovedWhileStreaming(w) ~> (streams[w].pc = "done" /\ streams[w].exit = "ended")

\* A stream whose session was gone when accept() returned: its increment found
\* nothing, and it is past the accept.
JoinedNothing(s) ==
    ~s.inc /\ s.pc \in {"sleeping", "closing", "done"} \cup Sending
           /\ s.exit \notin {"not_found", "accept_failed"}

\* C36: a stream whose session is removed between the existence check and the
\* increment goes from accept to its first sleep without a message and without
\* a change of the registry; its next tick builds gameOver; gameOver is the
\* only message it ever delivers; and no step of that stream changes the
\* registry.
C36_RemovedBeforeIncrement ==
    /\ [][\A w \in StreamIds :
            (/\ streams[w].pc = "accepting" /\ streams'[w].pc # "accepting"
             /\ streams'[w].exit # "accept_failed"
             /\ streams[w].player_id \notin DOMAIN players)
                => /\ streams'[w].pc = "sleeping" /\ streams'[w].sending = None
                   /\ streams'[w].msgs = <<>> /\ ~streams'[w].inc
                   /\ players' = players]_vars
    /\ [][\A w \in StreamIds :
            (JoinedNothing(streams[w]) /\ streams'[w] # streams[w])
                => /\ streams[w].pc = "sleeping"
                        => streams'[w].sending = Some(GameOverMessage)
                   /\ \A i \in DOMAIN streams'[w].msgs :
                        streams'[w].msgs[i] = GameOverMessage
                   /\ players' = players]_vars

\* C37: cleanup_expired deletes a revocation record only when the token's own
\* expiry has passed: whenever a record leaves invalidated_tokens, the token
\* it revoked no longer decodes, at that moment and so at any later one.
C37_CleanupOnlyAfterExpiry ==
    [][\A row \in revoked :
        row \notin revoked' => decode_access_token(row.token_jti.sha256, now') = None]_vars

\* C38: every ledger row carries the current username of the user who owns it.
C38_EntryUsernameIsCurrent ==
    \A i \in DOMAIN ledger :
        /\ ledger[i].user_id \in DOMAIN users
        /\ ledger[i].username = users[ledger[i].user_id].username

\* C38, its case: two users own rows, and one of them has taken a new username
\* since its row was written.
C38_Witness ==
    /\ resp # None /\ resp[1].op = "update" /\ resp[1].status = 200
    /\ \E i, j \in DOMAIN ledger :
        /\ ledger[i].user_id = resp[1].user_id
        /\ ledger[i].username = resp[1].username[1]
        /\ ledger[j].user_id # resp[1].user_id
    /\ \E i \in DOMAIN ledger : ledger[i].user_id = resp[1].user_id /\ i < Len(ledger)

====
